---- MODULE Spec2Model ----
(***************************************************************************)
(* Import Mocha Track (import_mocha_track.py): a menu callback builds a    *)
(* MochaTrack instance, parses four tracker files, creates a node in the   *)
(* host, lets the host save its setup as text, patches the text line by    *)
(* line, writes it back and asks the host to reload it.                    *)
(*                                                                         *)
(* Setup lines, file names and node names are strings; "item in line" is   *)
(* Python's substring test.  Tracker coordinates are floats that are       *)
(* multiples of 0.5, held as a number of halves; frame numbers are ints.   *)
(***************************************************************************)
EXTENDS Integers, Sequences, FiniteSets, TLC

\* ------------------------------------------------------------- bounds ---
MaxFrames == 2
MaxRuns == 2
NumHosts == 2

\* ---------------------------------------------------- python helpers ---
Min(S) == CHOOSE m \in S : \A o \in S : m <= o
Max(S) == CHOOSE m \in S : \A o \in S : m >= o
Range(f) == {f[i] : i \in DOMAIN f}

Char(s, i) == SubSeq(s, i, i)

\* item in line
StrIn(item, line) ==
    \E i \in 1..(Len(line) - Len(item) + 1) : SubSeq(line, i, i + Len(item) - 1) = item

\* s.endswith(t)
EndsWith(s, t) ==
    Len(s) >= Len(t) /\ SubSeq(s, Len(s) - Len(t) + 1, Len(s)) = t

\* s.startswith(t)
StartsWith(s, t) ==
    Len(s) >= Len(t) /\ SubSeq(s, 1, Len(t)) = t

\* s[n:]
DropChars(s, n) == SubSeq(s, n + 1, Len(s))

\* l[0:-6]
StripExtension(l) == IF Len(l) > 6 THEN SubSeq(l, 1, Len(l) - 6) ELSE ""

\* i.split('/')[-1]
Slashes(p) == {i \in 1..Len(p) : Char(p, i) = "/"}
FileName(p) == IF Slashes(p) = {} THEN p ELSE SubSeq(p, Max(Slashes(p)) + 1, Len(p))

\* line.split()[n]  (n counted from 0), tokens separated by whitespace
IsSpace(c) == c \in {" ", "\t", "\n"}
TokenStarts(s) ==
    {i \in 1..Len(s) : ~IsSpace(Char(s, i)) /\ (i = 1 \/ IsSpace(Char(s, i - 1)))}
TokenEnd(s, i) ==
    Min({j \in i..Len(s) : j = Len(s) \/ IsSpace(Char(s, j + 1))})
SplitToken(s, n) ==
    LET st == CHOOSE i \in TokenStarts(s) : Cardinality({j \in TokenStarts(s) : j < i}) = n
    IN  SubSeq(s, st, TokenEnd(s, st))

\* int(token) for a token of decimal digits
DigitVal(c) ==
    CASE c = "0" -> 0 [] c = "1" -> 1 [] c = "2" -> 2 [] c = "3" -> 3 [] c = "4" -> 4
      [] c = "5" -> 5 [] c = "6" -> 6 [] c = "7" -> 7 [] c = "8" -> 8 [] c = "9" -> 9
RECURSIVE PyInt(_)
PyInt(tok) ==
    IF Len(tok) = 0 THEN 0
    ELSE 10 * PyInt(SubSeq(tok, 1, Len(tok) - 1)) + DigitVal(Char(tok, Len(tok)))

\* str() of a python number: <<"int", n>> or <<"float", h>>, h a number of halves
IntVal(n) == <<"int", n>>
FloatVal(h) == <<"float", h>>
Abs(n) == IF n < 0 THEN -n ELSE n
FloatStr(h) ==
    (IF h < 0 THEN "-" ELSE "") \o ToString(Abs(h) \div 2)
        \o (IF Abs(h) % 2 = 0 THEN ".0" ELSE ".5")
PyStr(v) == IF v[1] = "int" THEN ToString(v[2]) ELSE FloatStr(v[2])

\* int(float) truncates towards zero
TruncHalves(h) == IF h >= 0 THEN h \div 2 ELSE -((-h) \div 2)

\* list.insert(index, item): an index past the end appends
ListInsert(list, index, item) ==
    LET at == IF index > Len(list) THEN Len(list) ELSE index
    IN  SubSeq(list, 1, at) \o <<item>> \o SubSeq(list, at + 1, Len(list))

\* for n, v in enumerate(items, start): list.insert(n, v)
\* Item k goes in at start + k, right behind item k - 1; when start is past
\* the end every insert appends.
InsertEnumerated(list, start, items) ==
    LET at == IF start > Len(list) THEN Len(list) ELSE start
    IN  SubSeq(list, 1, at) \o items \o SubSeq(list, at + 1, Len(list))

\* list.pop(index)
ListPop(list, index) == SubSeq(list, 1, index) \o SubSeq(list, index + 2, Len(list))

\* Line numbers are Python's (first line is 0); None is -1.
None == -1
LineAt(setup, num) == setup[num + 1]
SetLine(setup, num, line) == [setup EXCEPT ![num + 1] = line]

\* ------------------------------------------------ find_line helpers ---
find_line(item, setup) ==
    LET hits == {num \in 0..(Len(setup) - 1) : StrIn(item, LineAt(setup, num))}
    IN  IF hits = {} THEN None ELSE Min(hits)

find_line_after(item, item_line_num, setup) ==
    LET hits == {num \in 0..(Len(setup) - 1) :
                    num > item_line_num /\ StrIn(item, LineAt(setup, num))}
    IN  IF hits = {} THEN None ELSE Min(hits)

\* ------------------------------------------- the host's setup text ---
\* What save_node_setup writes: a header with the frame resolution, then one
\* section per node of the host, in creation order.
Resolution == <<7, 6>>

NameLine(name) == "\tName " \o name \o "\n"

EmptyChannel(name, extrapolation, val) ==
    << "\t\tChannel " \o name \o "\n",
       "\t\t\tExtrapolation " \o extrapolation \o "\n",
       "\t\t\tValue " \o val \o "\n",
       "\t\t\tEnd\n" >>

HeaderLines ==
    << "Module Action\n",
       "FrameWidth " \o ToString(Resolution[1]) \o "\n",
       "FrameHeight " \o ToString(Resolution[2]) \o "\n" >>

GridNodeLines(name) ==
    << "Node PerspectiveGrid\n", NameLine(name), "\tSpecifics\n", "\t{\n",
       "\t\tTransformIs3D yes\n" >>
    \o EmptyChannel("upper_left_corner/x", "linear", "0")
    \o EmptyChannel("upper_left_corner/y", "linear", "0")
    \o EmptyChannel("upper_right_corner/x", "linear", "0")
    \o EmptyChannel("upper_right_corner/y", "linear", "0")
    \o EmptyChannel("lower_left_corner/x", "linear", "0")
    \o EmptyChannel("lower_left_corner/y", "linear", "0")
    \o EmptyChannel("lower_right_corner/x", "linear", "0")
    \o EmptyChannel("lower_right_corner/y", "linear", "0")
    \o << "\t}\n", "End\n" >>

AxisNodeLines(name) ==
    << "Node Axis\n", NameLine(name), "End\n" >>

SurfaceNodeLines(name) ==
    << "Node Surface\n", NameLine(name), "\tSpecifics\n", "\t{\n",
       "\t\tResWidth " \o ToString(Resolution[1]) \o "\n",
       "\t\tResHeight " \o ToString(Resolution[2]) \o "\n",
       "\t\tIsSoftImported no\n",
       "\t\tNumUVTrackControlPoints 0\n" >>
    \o EmptyChannel("uv_track_shape", "constant", "0")
    \o EmptyChannel("uv_track_vertices", "constant", "0")
    \o << "\t}\n", "End\n" >>

\* host_node.nodes, by name
NodeNameLines(text) == {i \in 1..Len(text) : StartsWith(text[i], "\tName ")}
NodeNameAt(text, i) == SubSeq(text[i], 7, Len(text[i]) - 1)
NodeNames(text) == {NodeNameAt(text, i) : i \in NodeNameLines(text)}

\* host_node.create_node(type): the host appends the node under a default
\* name; a Surface comes with its parent axis, created just before it.
DefaultName(base, text) == base \o ToString(Cardinality(NodeNameLines(text)) + 1)
create_node(text, type) ==
    IF type = "Perspective Grid"
    THEN text \o GridNodeLines(DefaultName("persp_grid", text))
    ELSE LET with_axis == text \o AxisNodeLines(DefaultName("axis", text))
         IN  with_axis \o SurfaceNodeLines(DefaultName("surface", with_axis))

\* node.name = node_name, for the node created last
set_name(text, node_name) ==
    [text EXCEPT ![Max(NodeNameLines(text))] = NameLine(node_name)]

\* Nodes the host may hold before an import.
HostPresets ==
    { HeaderLines,
      HeaderLines \o GridNodeLines("trk_wide"),
      HeaderLines \o AxisNodeLines("axis1") \o SurfaceNodeLines("trk_wide"),
      HeaderLines \o GridNodeLines("trk") }

\* ------------------------------------------------ the tracker files ---
AllPaths ==
    << "/m/trk_Tracker1.ascii", "/m/trk_Tracker2.ascii",
       "/m/trk_Tracker3.ascii", "/m/trk_Tracker4.ascii",
       "/n/trk_Tracker1.ascii", "/m/trk_Tracker1b.ascii",
       "/m/alt_Tracker2.ascii", "/m/notes.ascii" >>

\* Line i of the k-th file: frame value, x and y, each in halves.
FileLine(k, i) == [frame |-> 2 * i + (k % 2), x |-> 10 * k + 3 * i, y |-> 4 * k - 5 * i]
FileSystem(n) ==
    [p \in Range(AllPaths) |->
        LET k == CHOOSE j \in DOMAIN AllPaths : AllPaths[j] = p
        IN  [i \in 1..n |-> FileLine(k, i)]]

\* What the user may pick in the file browser.
SelectionChoices ==
    { << AllPaths[1], AllPaths[2], AllPaths[3], AllPaths[4] >>,
      << AllPaths[3], AllPaths[1], AllPaths[4], AllPaths[2] >>,
      << AllPaths[1], AllPaths[8], AllPaths[3] >>,
      << AllPaths[1], AllPaths[2], AllPaths[3], AllPaths[4], AllPaths[5] >>,
      << AllPaths[1], AllPaths[2], AllPaths[8], AllPaths[4] >>,
      << AllPaths[1], AllPaths[7], AllPaths[3], AllPaths[4] >>,
      << AllPaths[1], AllPaths[7], AllPaths[8], AllPaths[4] >>,
      << AllPaths[1], AllPaths[5], AllPaths[3], AllPaths[4] >>,
      << AllPaths[6], AllPaths[2], AllPaths[3], AllPaths[4] >> }

\* ------------------------------------------------ parse_mocha_files ---
\* tracker_regex.search(file).start(), counted from 0; None without a match
TrackerDigits == {"1", "2", "3", "4"}
tracker_regex_search(file) ==
    LET hits == {i \in 1..(Len(file) - 8) :
                    /\ SubSeq(file, i, i + 7) = "_Tracker"
                    /\ Char(file, i + 8) \in TrackerDigits}
    IN  IF hits = {} THEN None ELSE Min(hits) - 1

\* The scan of the file names, from name k on; mocha_names holds the names
\* appended so far.  Yields the exception raised and self.track_name.
RECURSIVE scan_file_names(_, _, _, _)
scan_file_names(tracker_file_names, k, mocha_names, name_so_far) ==
    IF k > Len(tracker_file_names)
    THEN [raised |-> "none", track_name |-> name_so_far]
    ELSE LET file == tracker_file_names[k]
             name_end == tracker_regex_search(file)
             appended == Append(mocha_names, SubSeq(file, 1, name_end))
         IN  IF name_end = None
             THEN [raised |-> "TypeError", track_name |-> name_so_far]
             ELSE IF Cardinality(Range(appended)) # 1
             THEN [raised |-> "ValueError", track_name |-> name_so_far]
             ELSE scan_file_names(tracker_file_names, k + 1, appended, appended[1])

\* Without the count of the selection
check_selection_uncounted(selected, name_before) ==
    scan_file_names([k \in 1..Len(selected) |-> FileName(selected[k])],
                    1, <<>>, name_before)

check_selection(selected, name_before) ==
    IF Len(selected) # 4
    THEN [raised |-> "ValueError", track_name |-> name_before]
    ELSE scan_file_names([k \in 1..Len(selected) |-> FileName(selected[k])],
                         1, <<>>, name_before)

\* frame_to_tuple: (frame num, x, y)
frame_to_tuple(file_line, offset) ==
    << TruncHalves(file_line.frame) + offset, file_line.x, file_line.y >>

\* The corner a file's lines are appended to
CornerOfFile(l) ==
    LET stem == StripExtension(l)
    IN  IF EndsWith(stem, "Tracker1") THEN "upper_left"
        ELSE IF EndsWith(stem, "Tracker2") THEN "upper_right"
        ELSE IF EndsWith(stem, "Tracker3") THEN "lower_left"
        ELSE IF EndsWith(stem, "Tracker4") THEN "lower_right"
        ELSE "none"

\* The frames the loop over selected_files appends to one corner list
RECURSIVE read_corner(_, _, _, _, _)
read_corner(corner, selected, k, fs, offset) ==
    IF k > Len(selected) THEN <<>>
    ELSE (IF CornerOfFile(selected[k]) = corner
          THEN [i \in 1..Len(fs[selected[k]]) |-> frame_to_tuple(fs[selected[k]][i], offset)]
          ELSE <<>>)
         \o read_corner(corner, selected, k + 1, fs, offset)

\* ------------------------------------------------------- key frames ---
RECURSIVE Flatten(_)
Flatten(lists) == IF lists = <<>> THEN <<>> ELSE Head(lists) \o Flatten(Tail(lists))

key_frame(index, frame, value, value_lock, curve_order) ==
    LET kf_lines ==
            << "\t\t\tKey " \o ToString(index) \o "\n",
               "\t\t\t\tFrame " \o ToString(frame) \o "\n",
               "\t\t\t\tValue " \o PyStr(value) \o "\n",
               "\t\t\t\tRHandle_dX 0.25\n",
               "\t\t\t\tRHandle_dY 0\n",
               "\t\t\t\tLHandle_dX -0.25\n",
               "\t\t\t\tLHandle_dY 0\n",
               "\t\t\t\tCurveMode hermite\n",
               "\t\t\t\tCurveOrder " \o curve_order \o "\n",
               "\t\t\t\tEnd\n" >>
    IN  IF value_lock THEN ListInsert(kf_lines, 7, "\t\t\t\tValueLock yes\n") ELSE kf_lines

\* [(p[0], p[1]) for p in corner] and [(p[0], p[2]) for p in corner]
extract_dimension(corner, dimension) ==
    IF dimension = "x"
    THEN [i \in 1..Len(corner) |-> << corner[i][1], corner[i][2] >>]
    ELSE [i \in 1..Len(corner) |-> << corner[i][1], corner[i][3] >>]

\* [k[2:] for k in self.key_frame(index, frame, value)]
tracker_key(index, frame, value) ==
    LET kf == key_frame(index, frame, value, FALSE, "linear")
    IN  [i \in 1..Len(kf) |-> DropChars(kf[i], 2)]

\* With each frame's coordinate minus the reference coordinate
shift_keys_from_frame(corner, coord) ==
    Flatten([i \in 1..Len(corner) |->
        tracker_key(i - 1, corner[i][1], FloatVal(corner[i][coord] - corner[1][coord]))])

\* The keys of a shift channel: the reference coordinate minus each frame's
shift_keys(corner, coord) ==
    Flatten([i \in 1..Len(corner) |->
        tracker_key(i - 1, corner[i][1], FloatVal(corner[1][coord] - corner[i][coord]))])

\* add_tracker: all lines of one tracker attachment; corner is not empty
add_tracker(tracker, corner, width, height) ==
    LET ref_frame == corner[1][1]
        closing == << "\tColour 85 85 85\n", "\tEnd\n" >>
        one_key_head(val) ==
            << "\tExtrapolation constant\n", "\tValue " \o val \o "\n",
               "\tSize 1\n", "\tKeyVersion 2\n" >>
        fixed(name, extrapolation, val) ==
            << "Channel " \o name \o "\n", "\tExtrapolation " \o extrapolation \o "\n",
               "\tValue " \o val \o "\n" >> \o closing
    IN  << "\tAttachement Tracker\n",
           "\tAttachementName \t\"" \o tracker \o "\"\n",
           "\tActive yes\n", "\tFixedRef no\n", "\tFixedX no\n", "\tFixedY no\n",
           "\tTolerance 100\n", "\tColour\n", "\t\tRed 100\n", "\t\tGreen 0\n",
           "\t\tBlue 0\n", "\tOffsetsX 0\n", "\tOffsetsY 0\n",
           "\tFirstRefFrame " \o ToString(ref_frame) \o "\n",
           "\tAnim\n",
           "Channel ref/x\n" >>
        \o one_key_head(FloatStr(corner[1][2]))
        \o tracker_key(0, ref_frame, FloatVal(corner[1][2]))
        \o closing
        \o << "Channel ref/y\n" >>
        \o one_key_head(FloatStr(corner[1][3]))
        \o tracker_key(0, ref_frame, FloatVal(corner[1][3]))
        \o closing
        \o fixed("ref/width", "constant", "64")
        \o fixed("ref/height", "constant", "64")
        \o << "Channel ref/dx\n" >>
        \o one_key_head("0")
        \o tracker_key(0, ref_frame, IntVal(0))
        \o closing
        \o << "Channel ref/dy\n" >>
        \o one_key_head("0")
        \o tracker_key(0, ref_frame, IntVal(0))
        \o closing
        \o fixed("track/x", "linear", ToString(width \div 2))
        \o fixed("track/y", "linear", ToString(height \div 2))
        \o fixed("track/width", "constant", "96")
        \o fixed("track/height", "constant", "96")
        \o << "Channel shift/x\n", "\tExtrapolation linear\n", "\tValue 0\n",
              "\tSize " \o ToString(Len(corner)) \o "\n", "\tKeyVersion 2\n" >>
        \o shift_keys(corner, 2)
        \o << "\tColour 255 0 0\n", "\tEnd\n",
              "Channel shift/y\n", "\tExtrapolation linear\n", "\tValue 0\n",
              "\tSize " \o ToString(Len(corner)) \o "\n", "\tKeyVersion 2\n" >>
        \o shift_keys(corner, 3)
        \o << "\tColour 255 0 0\n", "\tEnd\n" >>
        \o fixed("offset/x", "linear", "0")
        \o fixed("offset/y", "linear", "0")
        \o << "ChannelEnd\n", "AttachementEnd\n" >>

\* ---------------------------------------------------- add_animation ---
\* animation is a list of (frame, value) with value a python number.
\* animation[value_index], value_index 0 or -1
PyIndex(list, index) == IF index < 0 THEN list[Len(list) + 1 + index] ELSE list[index + 1]

\* The exception add_animation dies of, or "none"
add_animation_error(node_name, setup, channel, animation) ==
    LET node_line == find_line(node_name, setup)
        channel_line == find_line_after(channel, node_line, setup)
    IN  IF node_line = None \/ channel_line = None THEN "TypeError"
        ELSE IF channel_line + 2 > Len(setup) - 1 \/ animation = <<>> THEN "IndexError"
        ELSE "none"

animation_block(animation, value_lock, curve_order) ==
    << "\t\t\tSize " \o ToString(Len(animation)) \o "\n", "\t\t\tKeyVersion 2\n" >>
    \o Flatten([i \in 1..Len(animation) |->
            key_frame(i - 1, animation[i][1], animation[i][2], value_lock, curve_order)])

\* With the block spliced in one line early, ahead of the Value line
add_animation_early(node_name, setup, channel, animation, value_lock, extrapolation, curve_order, value_index) ==
    LET node_line == find_line(node_name, setup)
        channel_line == find_line_after(channel, node_line, setup)
        headed == SetLine(SetLine(setup, channel_line + 1,
                                  "\t\t\tExtrapolation " \o extrapolation \o "\n"),
                          channel_line + 2,
                          "\t\t\tValue " \o PyStr(PyIndex(animation, value_index)[2]) \o "\n")
    IN  InsertEnumerated(headed, channel_line + 2,
                         animation_block(animation, value_lock, curve_order))

add_animation(node_name, setup, channel, animation, value_lock, extrapolation, curve_order, value_index) ==
    LET node_line == find_line(node_name, setup)
        channel_line == find_line_after(channel, node_line, setup)
        headed == SetLine(SetLine(setup, channel_line + 1,
                                  "\t\t\tExtrapolation " \o extrapolation \o "\n"),
                          channel_line + 2,
                          "\t\t\tValue " \o PyStr(PyIndex(animation, value_index)[2]) \o "\n")
    IN  InsertEnumerated(headed, channel_line + 3,
                         animation_block(animation, value_lock, curve_order))

\* ------------------------------------------------------ name_import ---
\* Taking the track name without a look at the nodes of the host
name_import_unchecked(name, object_num, existing_nodes, track) == name

RECURSIVE name_import(_, _, _, _)
name_import(name, object_num, existing_nodes, track) ==
    IF name \notin existing_nodes THEN name
    ELSE name_import(track \o ToString(object_num + 1), object_num + 1, existing_nodes, track)

\* ------------------------------------------------------------ state ---
VARIABLES
    files,              \* the tracker files on disk: path -> lines
    browser,            \* the selections the file browser can return
    batch_start_frame,  \* flame.batch.start_frame
    hosts,              \* setup text of each host node of the batch
    temp_exists,        \* SCRIPT_PATH/temp exists
    temp_files,         \* setup files in the temp folder: host -> lines
    runs_left,          \* menu invocations still to come
    pc,                 \* position of the running import
    kind,               \* "grid" (import_perspective_grid) or "uvs" (import_bilinear_uvs)
    host_node,          \* self.host_node
    sf_offset,          \* self.sf_offset
    track_name,         \* self.track_name
    lower_left, lower_right, upper_left, upper_right,
    selected_files,     \* what the browser returned
    raised,             \* the exception that ended the import, or "none"
    node_name,          \* the name given to the new node
    contents,           \* the setup list being patched
    width, height,
    name_line, uvt_line,
    corner_idx, dim,    \* the corner and dimension whose animation is added next
    anim_call,          \* the add_animation call made last: arguments and result
    trace,              \* the steps of the running import, in order
    saved_text,         \* the setup text the host saved for this import
    log                 \* one record per setup file written

world == << files, browser, batch_start_frame >>
disk == << temp_exists, temp_files >>
instance == << host_node, sf_offset, track_name, lower_left, lower_right,
               upper_left, upper_right >>
locals == << node_name, contents, width, height, name_line, uvt_line,
             corner_idx, dim, anim_call >>
vars == << world, hosts, disk, runs_left, pc, kind, instance, selected_files,
           raised, locals, trace, saved_text, log >>

EmptyFolder == [h \in {} |-> <<>>]
NoCall == [setup |-> <<>>, channel |-> "", animation |-> <<>>, value_lock |-> FALSE,
           result |-> <<>>]

\* self.corners
corner_keys == << "lower_left", "upper_left", "lower_right", "upper_right" >>
corners(key) ==
    CASE key = "lower_left" -> lower_left
      [] key = "upper_left" -> upper_left
      [] key = "lower_right" -> lower_right
      [] key = "upper_right" -> upper_right

StartFrames == {1, 3}

InitWith(frame_counts, start_frames, presets, stale_choices) ==
    /\ \E n \in frame_counts : files = FileSystem(n)
    /\ batch_start_frame \in start_frames
    /\ \E preset \in presets : hosts = [h \in 1..NumHosts |-> preset]
    /\ temp_exists \in stale_choices
    /\ temp_files = IF temp_exists THEN [h \in {NumHosts} |-> hosts[h]] ELSE EmptyFolder
    /\ pc = "idle" /\ kind = "none" /\ host_node = 1 /\ sf_offset = 0
    /\ track_name = ""
    /\ lower_left = <<>> /\ lower_right = <<>> /\ upper_left = <<>> /\ upper_right = <<>>
    /\ selected_files = <<>> /\ raised = "none"
    /\ node_name = "" /\ contents = <<>> /\ width = 0 /\ height = 0
    /\ name_line = None /\ uvt_line = None /\ corner_idx = 1 /\ dim = "x"
    /\ anim_call = NoCall
    /\ trace = <<>> /\ saved_text = <<>> /\ log = <<>>

\* One import, any selection; the temp folder may be left over from an
\* import that died before removing it.
Init ==
    /\ InitWith(1..MaxFrames, StartFrames, HostPresets, BOOLEAN)
    /\ browser = SelectionChoices
    /\ runs_left = 1

\* Several imports in a row, of selections that pass the name checks and hold
\* one file for each corner, into hosts that start out empty, or with one node
\* that has a numbered name of the track, and fill up with the nodes of the
\* imports
RepeatPresets == { HeaderLines, HeaderLines \o GridNodeLines("trk1") }
RepeatChoices ==
    {s \in SelectionChoices :
        /\ check_selection(s, "").raised = "none" /\ s[1] = AllPaths[1]
        /\ \A c \in Range(corner_keys) :
              Cardinality({k \in 1..Len(s) : CornerOfFile(s[k]) = c}) = 1}
InitRepeat ==
    /\ InitWith({MaxFrames}, {Max(StartFrames)}, RepeatPresets, {FALSE})
    /\ browser = RepeatChoices
    /\ runs_left = MaxRuns

\* ---------------------------------------------------------- actions ---
\* The lists of the instance before, as lists kept on the class would be
NewCornerListShared(previous) == previous

\* self.lower_left = [] and the like: each instance starts with empty lists
NewCornerList(previous) == <<>>

\* With the node created on construction, ahead of the parse
MochaTrackCreating(import) ==
    /\ pc \in {"idle", "done", "raised", "crashed"}
    /\ runs_left > 0
    /\ runs_left' = runs_left - 1
    /\ \E h \in 1..NumHosts :
          /\ host_node' = h
          /\ hosts' = [hosts EXCEPT ![h] = create_node(hosts[h], "Surface")]
    /\ kind' = import
    /\ sf_offset' = batch_start_frame - 1
    /\ track_name' = ""
    /\ lower_left' = NewCornerList(lower_left)
    /\ lower_right' = NewCornerList(lower_right)
    /\ upper_left' = NewCornerList(upper_left)
    /\ upper_right' = NewCornerList(upper_right)
    /\ selected_files' = <<>> /\ raised' = "none"
    /\ node_name' = "" /\ contents' = <<>> /\ width' = 0 /\ height' = 0
    /\ name_line' = None /\ uvt_line' = None /\ corner_idx' = 1 /\ dim' = "x"
    /\ anim_call' = NoCall
    /\ trace' = <<>> /\ saved_text' = <<>>
    /\ pc' = "parse"
    /\ UNCHANGED << world, disk, log >>

\* MochaTrack(): __init__ on the current node of the batch
MochaTrack(import) ==
    /\ pc \in {"idle", "done", "raised", "crashed"}
    /\ runs_left > 0
    /\ runs_left' = runs_left - 1
    /\ \E h \in 1..NumHosts : host_node' = h
    /\ kind' = import
    /\ sf_offset' = batch_start_frame - 1
    /\ track_name' = ""
    /\ lower_left' = NewCornerList(lower_left)
    /\ lower_right' = NewCornerList(lower_right)
    /\ upper_left' = NewCornerList(upper_left)
    /\ upper_right' = NewCornerList(upper_right)
    /\ selected_files' = <<>> /\ raised' = "none"
    /\ node_name' = "" /\ contents' = <<>> /\ width' = 0 /\ height' = 0
    /\ name_line' = None /\ uvt_line' = None /\ corner_idx' = 1 /\ dim' = "x"
    /\ anim_call' = NoCall
    /\ trace' = <<>> /\ saved_text' = <<>>
    /\ pc' = "parse"
    /\ UNCHANGED << world, hosts, disk, log >>

perspective_grid == MochaTrack("grid")
surface_uvs == MochaTrack("uvs")

\* An uncaught exception ends the import where it stands
Crash(exception) ==
    /\ pc' = "crashed"
    /\ raised' = exception

parse_mocha_files ==
    /\ pc = "parse"
    /\ \E selection \in browser :
        LET checked == check_selection(selection, track_name)
        IN  /\ selected_files' = selection
            /\ track_name' = checked.track_name
            /\ IF checked.raised # "none"
               THEN /\ pc' = "raised"
                    /\ raised' = checked.raised
                    /\ UNCHANGED << lower_left, lower_right, upper_left, upper_right >>
               ELSE /\ pc' = "create"
                    /\ raised' = "none"
                    /\ upper_left' = upper_left
                            \o read_corner("upper_left", selection, 1, files, sf_offset)
                    /\ upper_right' = upper_right
                            \o read_corner("upper_right", selection, 1, files, sf_offset)
                    /\ lower_left' = lower_left
                            \o read_corner("lower_left", selection, 1, files, sf_offset)
                    /\ lower_right' = lower_right
                            \o read_corner("lower_right", selection, 1, files, sf_offset)
    /\ trace' = Append(trace, "parse")
    /\ UNCHANGED << world, hosts, disk, runs_left, kind, host_node, sf_offset,
                    locals, saved_text, log >>

\* create_node, name_import and the assignment of the name
create_named_node ==
    /\ pc = "create"
    /\ LET created == create_node(hosts[host_node],
                          IF kind = "grid" THEN "Perspective Grid" ELSE "Surface")
           chosen == name_import(track_name, 0, NodeNames(created), track_name)
       IN  /\ node_name' = chosen
           /\ hosts' = [hosts EXCEPT ![host_node] = set_name(created, chosen)]
    /\ pc' = "save"
    /\ trace' = Append(trace, "create")
    /\ UNCHANGED << world, disk, runs_left, kind, instance, selected_files, raised,
                    contents, width, height, name_line, uvt_line, corner_idx, dim,
                    anim_call, saved_text, log >>

\* os.makedirs, or shutil.rmtree and os.makedirs when the folder is there
makedirs_temp(exists, folder) == IF exists THEN EmptyFolder ELSE folder

save_selected_node ==
    /\ pc = "save"
    /\ temp_exists' = TRUE
    /\ LET fresh == makedirs_temp(temp_exists, temp_files)
       IN  temp_files' = [h \in DOMAIN fresh \cup {host_node} |->
                              IF h = host_node THEN hosts[host_node] ELSE fresh[h]]
    /\ saved_text' = hosts[host_node]
    /\ pc' = "read"
    /\ trace' = Append(trace, "save")
    /\ UNCHANGED << world, hosts, runs_left, kind, instance, selected_files, raised,
                    locals, log >>

\* contents = edit_node.readlines()
read_setup ==
    /\ pc = "read"
    /\ contents' = temp_files[host_node]
    /\ pc' = IF kind = "grid" THEN "grid_setup" ELSE "uvs_setup"
    /\ trace' = Append(trace, "read")
    /\ UNCHANGED << world, hosts, disk, runs_left, kind, instance, selected_files,
                    raised, node_name, width, height, name_line, uvt_line, corner_idx,
                    dim, anim_call, saved_text, log >>

\* After the add_animation call for (corner_idx, dim): the next call, or the write
NextAnimation ==
    IF dim = "x"
    THEN /\ dim' = "y" /\ corner_idx' = corner_idx /\ pc' = pc
    ELSE /\ dim' = "x"
         /\ corner_idx' = IF corner_idx = Len(corner_keys) THEN 1 ELSE corner_idx + 1
         /\ pc' = IF corner_idx = Len(corner_keys) THEN "write" ELSE pc

\* values of an animation as python floats
as_floats(animation) ==
    [i \in 1..Len(animation) |-> << animation[i][1], FloatVal(animation[i][2]) >>]

\* ------------------------------------------ import_perspective_grid ---
\* Resolution from the setup, and the grid's TransformIs3D line
grid_setup ==
    /\ pc = "grid_setup"
    /\ LET width_line == find_line("FrameWidth", contents)
           height_line == find_line_after("FrameHeight", width_line, contents)
           grid_line == find_line(node_name, contents)
           grid_3d_line == find_line_after("TransformIs3D", grid_line, contents)
       IN  IF None \in {width_line, height_line, grid_line, grid_3d_line}
           THEN /\ Crash("TypeError")
                /\ UNCHANGED << contents, width, height >>
           ELSE /\ width' = PyInt(SplitToken(LineAt(contents, width_line), 1))
                /\ height' = PyInt(SplitToken(LineAt(contents, height_line), 1))
                /\ contents' = SetLine(contents, grid_3d_line, "\t\tTransformIs3D no\n")
                /\ pc' = "grid_anim"
                /\ raised' = raised
    /\ trace' = Append(trace, pc)
    /\ UNCHANGED << world, hosts, disk, runs_left, kind, instance, selected_files,
                    node_name, name_line, uvt_line, corner_idx, dim, anim_call,
                    saved_text, log >>

\* With width / 2 and height / 2 in place of the floor divisions
grid_translation_true_division(corner, w, h) ==
    [i \in 1..Len(corner) |->
        << corner[i][1], corner[i][2] - w + 1, corner[i][3] - h + 1 >>]

\* tf = (f, float(xo - h_offset + 0.5), float(yo - v_offset + 0.5))
grid_translation(corner, w, h) ==
    [i \in 1..Len(corner) |->
        << corner[i][1],
           corner[i][2] - 2 * (w \div 2) + 1,
           corner[i][3] - 2 * (h \div 2) + 1 >>]

\* One add_animation call of the loop over self.corners
grid_anim ==
    /\ pc = "grid_anim"
    /\ LET key == corner_keys[corner_idx]
           animation == as_floats(extract_dimension(
                            grid_translation(corners(key), width, height), dim))
           channel == key \o "_corner/" \o dim
           error == add_animation_error(node_name, contents, channel, animation)
       IN  /\ anim_call' = [setup |-> contents, channel |-> channel,
                            animation |-> animation, value_lock |-> FALSE,
                            result |-> IF error # "none" THEN <<>> ELSE
                                add_animation(node_name, contents, channel, animation, FALSE,
                                              "linear", "linear", 0)]
           /\ IF error # "none"
              THEN /\ Crash(error)
                   /\ UNCHANGED << contents, corner_idx, dim >>
              ELSE /\ contents' = anim_call'.result
                   /\ NextAnimation
                   /\ raised' = raised
    /\ trace' = Append(trace, pc)
    /\ UNCHANGED << world, hosts, disk, runs_left, kind, instance, selected_files,
                    node_name, width, height, name_line, uvt_line, saved_text, log >>

\* ---------------------------------------------- import_bilinear_uvs ---
\* contents[index] = line, index possibly -1
SetLineIdx(setup, index, line) ==
    IF index < 0 THEN [setup EXCEPT ![Len(setup) + 1 + index] = line]
    ELSE SetLine(setup, index, line)

\* Surface type, and the resolution of the surface
uvs_setup ==
    /\ pc = "uvs_setup"
    /\ LET found == find_line(node_name, contents)
           typed == SetLineIdx(contents, found - 1, "Node SurfaceBilinear\n")
           width_line == find_line_after("ResWidth", found, typed)
           height_line == find_line_after("ResHeight", width_line, typed)
       IN  IF found = None \/ width_line = None \/ height_line = None
           THEN /\ Crash("TypeError")
                /\ UNCHANGED << contents, width, height, name_line >>
           ELSE /\ name_line' = found
                /\ contents' = typed
                /\ width' = PyInt(SplitToken(LineAt(typed, width_line), 1))
                /\ height' = PyInt(SplitToken(LineAt(typed, height_line), 1))
                /\ pc' = "uvs_trackers"
                /\ raised' = raised
    /\ trace' = Append(trace, pc)
    /\ UNCHANGED << world, hosts, disk, runs_left, kind, instance, selected_files,
                    node_name, uvt_line, corner_idx, dim, anim_call, saved_text, log >>

\* tracker_attachments
tracker_attachments(w, h) ==
    add_tracker("offset0_0", lower_left, w, h)
    \o add_tracker("offset0_1", upper_left, w, h)
    \o add_tracker("offset1_0", lower_right, w, h)
    \o add_tracker("offset1_1", upper_right, w, h)

control_point_lines ==
    [n \in 1..4 |-> "\t\tUVTrackControlPoint " \o ToString(n - 1) \o "\n"]

\* The setup with the attachments spliced in at input_line
with_attachments(setup, input_line, w, h) ==
    InsertEnumerated(setup, input_line, tracker_attachments(w, h))

\* The control point count and the four control point lines
with_control_points(setup, track_points_line) ==
    InsertEnumerated(SetLine(setup, track_points_line, "\t\tNumUVTrackControlPoints 4\n"),
                     track_points_line + 1, control_point_lines)

uvs_trackers ==
    /\ pc = "uvs_trackers"
    /\ LET soft_line == find_line_after("IsSoftImported", name_line, contents)
       IN  IF soft_line = None
           THEN /\ Crash("TypeError") /\ UNCHANGED << contents, uvt_line >>
           ELSE IF <<>> \in {lower_left, upper_left, lower_right, upper_right}
           THEN /\ Crash("IndexError") /\ UNCHANGED << contents, uvt_line >>
           ELSE LET input_line == soft_line + 1
                    attached == with_attachments(contents, input_line, width, height)
                    track_points_line ==
                        find_line_after("NumUVTrackControlPoints", input_line, attached)
                IN  IF track_points_line = None
                    THEN /\ Crash("TypeError") /\ UNCHANGED << contents, uvt_line >>
                    ELSE /\ contents' = with_control_points(attached, track_points_line)
                         /\ uvt_line' = track_points_line + 4
                         /\ pc' = "uvs_shape"
                         /\ raised' = raised
    /\ trace' = Append(trace, pc)
    /\ UNCHANGED << world, hosts, disk, runs_left, kind, instance, selected_files,
                    node_name, width, height, name_line, corner_idx, dim, anim_call,
                    saved_text, log >>

\* shapes = [(frame_tup[0], index) for index, frame_tup in enumerate(self.lower_left)]
shapes == [i \in 1..Len(lower_left) |-> << lower_left[i][1], IntVal(i - 1) >>]

uvs_shape ==
    /\ pc = "uvs_shape"
    /\ LET error == add_animation_error(node_name, contents, "uv_track_shape", shapes)
       IN  /\ anim_call' = [setup |-> contents, channel |-> "uv_track_shape",
                            animation |-> shapes, value_lock |-> TRUE,
                            result |-> IF error # "none" THEN <<>> ELSE
                                add_animation(node_name, contents, "uv_track_shape", shapes,
                                              TRUE, "constant", "linear", 0)]
           /\ IF error # "none"
              THEN /\ Crash(error) /\ UNCHANGED contents
              ELSE /\ contents' = anim_call'.result
                   /\ pc' = "uvs_vertices"
                   /\ raised' = raised
    /\ trace' = Append(trace, pc)
    /\ UNCHANGED << world, hosts, disk, runs_left, kind, instance, selected_files,
                    node_name, width, height, name_line, uvt_line, corner_idx, dim,
                    saved_text, log >>

\* while 'End' not in contents[line]: contents.pop(line); then one more pop.
\* Yields <<>> when the loop runs off the end of the list (IndexError).
RECURSIVE pop_channel(_, _)
pop_channel(setup, line) ==
    IF line > Len(setup) - 1 THEN <<>>
    ELSE IF StrIn("End", LineAt(setup, line)) THEN ListPop(setup, line)
    ELSE pop_channel(ListPop(setup, line), line)

\* channel_lines(corner): the empty channels of one corner
channel_lines(corner) ==
    LET horz_direction == IF StrIn("left", corner) THEN "right" ELSE "left"
        vert_direction == IF StrIn("lower", corner) THEN "up" ELSE "down"
        subchannel_names ==
            << "position/x", "position/y",
               "horz_tan_" \o horz_direction \o "/x",
               "horz_tan_" \o horz_direction \o "/y",
               "horz_tan_cont",
               "vert_tan_" \o vert_direction \o "/x",
               "vert_tan_" \o vert_direction \o "/y",
               "vert_tan_cont" >>
    IN  Flatten([s \in 1..Len(subchannel_names) |->
            EmptyChannel("uv_track_vertices/" \o corner \o "/" \o subchannel_names[s],
                         "constant",
                         IF StrIn("cont", subchannel_names[s]) THEN "2" ELSE "0")])

empty_channels ==
    channel_lines("lower_left") \o channel_lines("upper_left")
    \o channel_lines("lower_right") \o channel_lines("upper_right")

uvs_vertices ==
    /\ pc = "uvs_vertices"
    /\ LET track_vertices_line == find_line_after("uv_track_vertices", uvt_line, contents)
           popped == pop_channel(contents, track_vertices_line)
       IN  IF track_vertices_line = None
           THEN /\ Crash("TypeError") /\ UNCHANGED contents
           ELSE IF popped = <<>>
           THEN /\ Crash("IndexError") /\ UNCHANGED contents
           ELSE /\ contents' = InsertEnumerated(popped, track_vertices_line, empty_channels)
                /\ pc' = "uvs_anim"
                /\ raised' = raised
    /\ trace' = Append(trace, pc)
    /\ UNCHANGED << world, hosts, disk, runs_left, kind, instance, selected_files,
                    node_name, width, height, name_line, uvt_line, corner_idx, dim,
                    anim_call, saved_text, log >>

original_path_channels ==
    { "lower_left/position/x", "lower_left/position/y",
      "upper_left/position/x", "lower_right/position/y" }

\* With every position channel indexed as the tracker's is
uvs_translation_unreversed(key, dimension, w, h) ==
    LET keys == extract_dimension(corners(key), dimension)
    IN  [i \in 1..Len(keys) |-> << keys[i][1], keys[i][2] + 1 >>]

\* x_translation or y_translation of one corner
uvs_translation(key, dimension, w, h) ==
    LET keys == extract_dimension(corners(key), dimension)
        size == IF dimension = "x" THEN w ELSE h
    IN  IF (key \o "/position/" \o dimension) \in original_path_channels
        THEN [i \in 1..Len(keys) |-> << keys[i][1], keys[i][2] + 1 >>]
        ELSE [i \in 1..Len(keys) |-> << keys[i][1], keys[i][2] - 2 * size - 1 >>]

\* One add_animation call of the loop over self.corners.keys()
uvs_anim ==
    /\ pc = "uvs_anim"
    /\ LET key == corner_keys[corner_idx]
           animation == as_floats(uvs_translation(key, dim, width, height))
           channel == "uv_track_vertices/" \o key \o "/position/" \o dim
           error == add_animation_error(node_name, contents, channel, animation)
       IN  /\ anim_call' = [setup |-> contents, channel |-> channel,
                            animation |-> animation, value_lock |-> FALSE,
                            result |-> IF error # "none" THEN <<>> ELSE
                                add_animation(node_name, contents, channel, animation, FALSE,
                                              "constant", "linear", -1)]
           /\ IF error # "none"
              THEN /\ Crash(error)
                   /\ UNCHANGED << contents, corner_idx, dim >>
              ELSE /\ contents' = anim_call'.result
                   /\ NextAnimation
                   /\ raised' = raised
    /\ trace' = Append(trace, pc)
    /\ UNCHANGED << world, hosts, disk, runs_left, kind, instance, selected_files,
                    node_name, width, height, name_line, uvt_line, saved_text, log >>

\* ------------------------------------------- write, reload, clean up ---
\* Going on to the reload with the setup file as the host saved it
write_setup_skipped ==
    /\ pc = "write"
    /\ log' = Append(log, [kind |-> kind,
                           selected |-> selected_files,
                           tracks |-> [k \in 1..Len(selected_files) |->
                                          files[selected_files[k]]],
                           start_frame |-> sf_offset + 1,
                           node_name |-> node_name,
                           saved |-> saved_text,
                           written |-> temp_files[host_node]])
    /\ pc' = "reload"
    /\ trace' = Append(trace, pc)
    /\ UNCHANGED << world, hosts, disk, runs_left, kind, instance,
                    selected_files, raised, locals, saved_text >>

\* for l in contents: edit_node.write(l)
write_setup ==
    /\ pc = "write"
    /\ temp_files' = [temp_files EXCEPT ![host_node] = contents]
    /\ log' = Append(log, [kind |-> kind,
                           selected |-> selected_files,
                           tracks |-> [k \in 1..Len(selected_files) |->
                                          files[selected_files[k]]],
                           start_frame |-> sf_offset + 1,
                           node_name |-> node_name,
                           saved |-> saved_text,
                           written |-> contents])
    /\ pc' = "reload"
    /\ trace' = Append(trace, pc)
    /\ UNCHANGED << world, hosts, temp_exists, runs_left, kind, instance,
                    selected_files, raised, locals, saved_text >>

\* host_node.load_node_setup
reload_selected_node ==
    /\ pc = "reload"
    /\ hosts' = [hosts EXCEPT ![host_node] = temp_files[host_node]]
    /\ pc' = "cleanup"
    /\ trace' = Append(trace, pc)
    /\ UNCHANGED << world, disk, runs_left, kind, instance, selected_files, raised,
                    locals, saved_text, log >>

\* shutil.rmtree(self.temp_folder)
remove_temp_folder ==
    /\ pc = "cleanup"
    /\ temp_exists' = FALSE
    /\ temp_files' = EmptyFolder
    /\ pc' = "done"
    /\ trace' = Append(trace, pc)
    /\ UNCHANGED << world, hosts, runs_left, kind, instance, selected_files, raised,
                    locals, saved_text, log >>

Next ==
    \/ perspective_grid
    \/ surface_uvs
    \/ parse_mocha_files
    \/ create_named_node
    \/ save_selected_node
    \/ read_setup
    \/ grid_setup
    \/ grid_anim
    \/ uvs_setup
    \/ uvs_trackers
    \/ uvs_shape
    \/ uvs_vertices
    \/ uvs_anim
    \/ write_setup
    \/ reload_selected_node
    \/ remove_temp_folder

Spec == Init /\ [][Next]_vars
SpecRepeat == InitRepeat /\ [][Next]_vars

\* ===================================================== properties ======
\* parse_mocha_files has run in the current import
Parsed == pc \notin {"idle", "parse"}
\* ... and returned normally
ParsedNormally == Parsed /\ pc # "raised"
\* the patched setup has been written
Written == pc \in {"reload", "cleanup", "done"}

SelectedName(k) == FileName(selected_files[k])
SuffixStarts(name) ==
    {i \in 1..(Len(name) - 8) :
        \E d \in {"1", "2", "3", "4"} : SubSeq(name, i, i + 8) = "_Tracker" \o d}
HasSuffix(name) == SuffixStarts(name) # {}
NamePart(name) == SubSeq(name, 1, Min(SuffixStarts(name)) - 1)
TrackerNumber(name) == Char(name, Min(SuffixStarts(name)) + 8)

\* The names that stop the scan: no suffix, or a name part unlike an earlier one
Unsuffixed == {k \in 1..Len(selected_files) : ~HasSuffix(SelectedName(k))}
Differing ==
    {k \in 1..Len(selected_files) :
        /\ HasSuffix(SelectedName(k))
        /\ \E j \in 1..(k - 1) :
              /\ HasSuffix(SelectedName(j))
              /\ NamePart(SelectedName(j)) # NamePart(SelectedName(k))}

\* C1 as stated: ValueError when the selection is not of four files, TypeError
\* when any selected name lacks the _Tracker[1-4] suffix, ValueError when the
\* name parts differ; no normal return in any of these cases.
C1_AsStated ==
    Parsed =>
        /\ (Len(selected_files) # 4 => pc = "raised" /\ raised = "ValueError")
        /\ (Len(selected_files) = 4 /\ Unsuffixed # {}
                => pc = "raised" /\ raised = "TypeError")
        /\ (Len(selected_files) = 4 /\ Unsuffixed = {} /\ Differing # {}
                => pc = "raised" /\ raised = "ValueError")

\* C1 amended: every mismatching selection raises; ValueError when the
\* selection is not of four files, otherwise the first offending name in
\* selection order decides: TypeError when it lacks the suffix, ValueError
\* when its name part differs from an earlier one.
C1_FirstOffenderDecides ==
    Parsed =>
        /\ (Len(selected_files) # 4 => pc = "raised" /\ raised = "ValueError")
        /\ (Len(selected_files) = 4 /\ (Unsuffixed \cup Differing) # {}
                => /\ pc = "raised"
                   /\ raised = IF Min(Unsuffixed \cup Differing) \in Unsuffixed
                               THEN "TypeError" ELSE "ValueError")

\* A selection of four with a differing name ahead of an unsuffixed one
C1_Witness ==
    /\ pc = "raised" /\ raised = "ValueError"
    /\ Len(selected_files) = 4
    /\ Unsuffixed # {} /\ Differing # {}

\* The frames a file contributes, as parse_mocha_files builds them
FramesOfFile(path) ==
    [i \in 1..Len(files[path]) |->
        << TruncHalves(files[path][i].frame) + (batch_start_frame - 1),
           files[path][i].x, files[path][i].y >>]
CornerOfNumber(d) ==
    CASE d = "1" -> "upper_left" [] d = "2" -> "upper_right"
      [] d = "3" -> "lower_left" [] d = "4" -> "lower_right"

\* C2: when parse_mocha_files returns normally the selection is four files of
\* one track, one per tracker number 1..4, and each corner list holds the
\* frames of exactly the one file of its tracker number.
C2_OneFilePerCorner ==
    ParsedNormally =>
        /\ Len(selected_files) = 4
        /\ \A k \in 1..4 : HasSuffix(SelectedName(k))
        /\ \A j, k \in 1..4 : NamePart(SelectedName(j)) = NamePart(SelectedName(k))
        /\ \A d \in {"1", "2", "3", "4"} :
              \E k \in 1..4 :
                  /\ TrackerNumber(SelectedName(k)) = d
                  /\ \A j \in 1..4 : TrackerNumber(SelectedName(j)) = d => j = k
                  /\ corners(CornerOfNumber(d)) = FramesOfFile(selected_files[k])

\* The frames of the selected files of tracker number d, in selection order
RECURSIVE FramesOfNumber(_, _)
FramesOfNumber(d, k) ==
    IF k > Len(selected_files) THEN <<>>
    ELSE (IF TrackerNumber(SelectedName(k)) = d
          THEN FramesOfFile(selected_files[k]) ELSE <<>>)
         \o FramesOfNumber(d, k + 1)

\* C9: for an accepted selection every line of every selected file gives one
\* record (frame, x, y) in the corner of the file's tracker number, in file
\* order, with frame = integer part of the file's frame + (start frame - 1).
C9_EveryLineOneRecord ==
    ParsedNormally =>
        \A d \in {"1", "2", "3", "4"} :
            corners(CornerOfNumber(d)) = FramesOfNumber(d, 1)

\* The steps of a successful import, in order
Repeated(step, times) == [i \in 1..times |-> step]
StepsOfImport(import) ==
    IF import = "grid"
    THEN << "parse", "create", "save", "read", "grid_setup" >>
         \o Repeated("grid_anim", 8)
         \o << "write", "reload", "cleanup" >>
    ELSE << "parse", "create", "save", "read", "uvs_setup", "uvs_trackers",
            "uvs_shape", "uvs_vertices" >>
         \o Repeated("uvs_anim", 8)
         \o << "write", "reload", "cleanup" >>

\* C3: a successful import of either kind runs parse, create and name, save
\* into a fresh temp folder, read, patch, write, reload, remove, in that
\* order; the host reloads only the rewritten setup file and the temp folder
\* is there until the reload is done.
C3_FixedOrder ==
    /\ pc = "done" => trace = StepsOfImport(kind) /\ ~temp_exists
    /\ pc \in {"read", "grid_setup", "grid_anim", "uvs_setup", "uvs_trackers",
               "uvs_shape", "uvs_vertices", "uvs_anim", "write"}
          => /\ temp_exists
             /\ DOMAIN temp_files = {host_node}
             /\ temp_files[host_node] = saved_text
             /\ hosts[host_node] = saved_text
    /\ pc = "reload"
          => /\ temp_exists
             /\ temp_files[host_node] = contents
             /\ contents # saved_text
             /\ hosts[host_node] = saved_text
    /\ pc = "cleanup"
          => /\ temp_exists
             /\ temp_files[host_node] = contents
             /\ hosts[host_node] = contents
    /\ pc = "done" => hosts[host_node] = contents /\ contents # saved_text

C3_Witness ==
    /\ pc = "done" /\ kind = "uvs"
    /\ hosts[host_node] = contents /\ ~temp_exists

\* What an import is given
InputsOf(entry) ==
    << entry.kind, entry.selected, entry.tracks, entry.start_frame,
       entry.node_name, entry.saved >>

\* C4: two imports of the same kind given the same tracker files, start
\* frame, node name and saved setup text write the same patched text.
C4_Deterministic ==
    \A i, j \in 1..Len(log) :
        InputsOf(log[i]) = InputsOf(log[j]) => log[i].written = log[j].written

C4_Witness ==
    /\ Len(log) >= 2
    /\ InputsOf(log[1]) = InputsOf(log[2])
    /\ log[1].written = log[2].written

\* The section of the node called name: from its Name line to the line before
\* the next Node line
NameIdx(text, name) == CHOOSE i \in 1..Len(text) : text[i] = NameLine(name)
SectionOf(text, name) ==
    LET from == NameIdx(text, name)
        later == {j \in (from + 1)..Len(text) : StartsWith(text[j], "Node ")}
    IN  from..(IF later = {} THEN Len(text) ELSE Min(later) - 1)
LinesIn(text, name, keyword) ==
    {i \in SectionOf(text, name) : StartsWith(text[i], "\t\t" \o keyword \o " ")}
OtherNodes == NodeNames(saved_text) \ {node_name}

\* C5: after import_perspective_grid the TransformIs3D line of the node named
\* node_name reads "TransformIs3D no" and that of every other node is as saved.
C5_Only3DOfNewGrid ==
    (Written /\ kind = "grid") =>
        /\ \A i \in LinesIn(contents, node_name, "TransformIs3D") :
              contents[i] = "\t\tTransformIs3D no\n"
        /\ \A other \in OtherNodes :
              {contents[i] : i \in LinesIn(contents, other, "TransformIs3D")}
                  = {saved_text[i] : i \in LinesIn(saved_text, other, "TransformIs3D")}

\* C6: after import_bilinear_uvs the line before the Name line of the node
\* named node_name is "Node SurfaceBilinear" and the node-type line of every
\* other node is as saved.
C6_OnlyTypeOfNewSurface ==
    (Written /\ kind = "uvs") =>
        /\ contents[NameIdx(contents, node_name) - 1] = "Node SurfaceBilinear\n"
        /\ \A other \in OtherNodes :
              contents[NameIdx(contents, other) - 1]
                  = saved_text[NameIdx(saved_text, other) - 1]

\* The lines of rest with the first NumUVTrackControlPoints line set to 4 and
\* followed by the four control point lines
WithFourPoints(rest) ==
    LET q == Min({i \in 1..Len(rest) : StrIn("NumUVTrackControlPoints", rest[i])})
    IN  SubSeq(rest, 1, q - 1)
        \o << "\t\tNumUVTrackControlPoints 4\n",
              "\t\tUVTrackControlPoint 0\n", "\t\tUVTrackControlPoint 1\n",
              "\t\tUVTrackControlPoint 2\n", "\t\tUVTrackControlPoint 3\n" >>
        \o SubSeq(rest, q + 1, Len(rest))
AttachmentCount(text) == Cardinality({i \in 1..Len(text) : text[i] = "\tAttachement Tracker\n"})

\* C7: import_bilinear_uvs puts the four attachments offset0_0 (lower_left),
\* offset0_1 (upper_left), offset1_0 (lower_right), offset1_1 (upper_right) as
\* one run right after the IsSoftImported line of the new surface; the lines
\* before are unchanged, the lines after follow in order, with the
\* NumUVTrackControlPoints line set to 4 and followed by control points 0..3.
C7_AttachmentsAfterIsSoftImported ==
    [][ (pc = "uvs_trackers" /\ pc' = "uvs_shape") =>
            LET p == Min(LinesIn(contents, node_name, "IsSoftImported"))
                run == add_tracker("offset0_0", lower_left, Resolution[1], Resolution[2])
                       \o add_tracker("offset0_1", upper_left, Resolution[1], Resolution[2])
                       \o add_tracker("offset1_0", lower_right, Resolution[1], Resolution[2])
                       \o add_tracker("offset1_1", upper_right, Resolution[1], Resolution[2])
            IN  /\ AttachmentCount(contents') = AttachmentCount(contents) + 4
                /\ SubSeq(contents', 1, p) = SubSeq(contents, 1, p)
                /\ SubSeq(contents', p + 1, p + Len(run)) = run
                /\ SubSeq(contents', p + Len(run) + 1, Len(contents'))
                      = WithFourPoints(SubSeq(contents, p + 1, Len(contents)))
      ]_vars

\* C8: add_animation with n >= 1 keys lengthens the setup by 2 + 10n lines
\* (2 + 11n with value_lock): the lines up to the channel's header are
\* unchanged, then come the Extrapolation and Value lines, "Size n",
\* KeyVersion, the n key blocks 0..n-1 in the order of the animation, and
\* then every line that followed the channel's Value line, in order.
C8_AddAnimationSplice ==
    anim_call.result # <<>> =>
        LET before == anim_call.setup
            after == anim_call.result
            animation == anim_call.animation
            n == Len(animation)
            per == IF anim_call.value_lock THEN 11 ELSE 10
            h == find_line_after(anim_call.channel, find_line(node_name, before), before) + 1
        IN  /\ n >= 1
            /\ Len(after) = Len(before) + 2 + per * n
            /\ SubSeq(after, 1, h) = SubSeq(before, 1, h)
            /\ StartsWith(after[h + 1], "\t\t\tExtrapolation ")
            /\ after[h + 2] \in
                  { "\t\t\tValue " \o PyStr(animation[1][2]) \o "\n",
                    "\t\t\tValue " \o PyStr(animation[n][2]) \o "\n" }
            /\ after[h + 3] = "\t\t\tSize " \o ToString(n) \o "\n"
            /\ after[h + 4] = "\t\t\tKeyVersion 2\n"
            /\ \A i \in 1..n :
                  LET k == h + 5 + per * (i - 1)
                  IN  /\ after[k] = "\t\t\tKey " \o ToString(i - 1) \o "\n"
                      /\ after[k + 1] = "\t\t\t\tFrame " \o ToString(animation[i][1]) \o "\n"
                      /\ after[k + 2] = "\t\t\t\tValue " \o PyStr(animation[i][2]) \o "\n"
                      /\ after[k + per - 1] = "\t\t\t\tEnd\n"
                      /\ \A m \in 1..(per - 2) : ~StartsWith(after[k + m], "\t\t\tKey ")
            /\ SubSeq(after, h + 5 + per * n, Len(after)) = SubSeq(before, h + 3, Len(before))

\* A call with value_lock and more than one key has returned
C8_Witness ==
    /\ anim_call.result # <<>>
    /\ anim_call.value_lock
    /\ Len(anim_call.animation) >= 2
    /\ Len(anim_call.result) = Len(anim_call.setup) + 2 + 11 * Len(anim_call.animation)

\* The channel block add_animation wrote for a corner of the grid
GridChannelHeader(key, dimension) ==
    find_line_after(key \o "_corner/" \o dimension, find_line(node_name, contents),
                    contents) + 1
Coordinate(record, dimension) == IF dimension = "x" THEN record[2] ELSE record[3]
HalfOffset(dimension) ==
    IF dimension = "x" THEN Resolution[1] \div 2 ELSE Resolution[2] \div 2

\* C10: import_perspective_grid writes for channel <corner>_corner/x the values
\* x - (width // 2) + 0.5 and for <corner>_corner/y the values
\* y - (height // 2) + 0.5, width and height being the FrameWidth and
\* FrameHeight of the setup, at the frames of the corner, one key per frame.
C10_GridValues ==
    (Written /\ kind = "grid") =>
        \A c \in 1..Len(corner_keys) : \A dimension \in {"x", "y"} :
            LET corner == corners(corner_keys[c])
                n == Len(corner)
                h == GridChannelHeader(corner_keys[c], dimension)
            IN  /\ contents[h + 3] = "\t\t\tSize " \o ToString(n) \o "\n"
                /\ \A i \in 1..n :
                      LET k == h + 5 + 10 * (i - 1)
                      IN  /\ contents[k] = "\t\t\tKey " \o ToString(i - 1) \o "\n"
                          /\ contents[k + 1]
                                = "\t\t\t\tFrame " \o ToString(corner[i][1]) \o "\n"
                          /\ contents[k + 2]
                                = "\t\t\t\tValue "
                                  \o FloatStr(Coordinate(corner[i], dimension)
                                              - 2 * HalfOffset(dimension) + 1)
                                  \o "\n"
                /\ ~StartsWith(contents[h + 5 + 10 * n], "\t\t\tKey ")

C10_Witness ==
    /\ pc = "done" /\ kind = "grid"
    /\ \A c \in 1..Len(corner_keys) : Len(corners(corner_keys[c])) >= 2
    /\ contents[GridChannelHeader("upper_right", "y") + 3] = "\t\t\tSize 2\n"

\* The channel block add_animation wrote for a position channel of the surface
VertexChannelHeader(key, dimension) ==
    find_line_after("uv_track_vertices/" \o key \o "/position/" \o dimension,
                    find_line(node_name, contents), contents) + 1
\* The position channels that keep the tracker's indexing
KeepsTrackerIndexing(key, dimension) ==
    \/ key = "lower_left"
    \/ key = "upper_left" /\ dimension = "x"
    \/ key = "lower_right" /\ dimension = "y"
SurfaceSize(dimension) == IF dimension = "x" THEN Resolution[1] ELSE Resolution[2]
\* The value, in halves, the position channel is to hold for a tracker value
VertexValue(key, dimension, tracked) ==
    IF KeepsTrackerIndexing(key, dimension) THEN tracked + 1
    ELSE tracked - 2 * SurfaceSize(dimension) - 1

\* C11: import_bilinear_uvs writes tracker value + 0.5 to the position channels
\* lower_left/x, lower_left/y, upper_left/x and lower_right/y, and
\* tracker x - width - 0.5, tracker y - height - 0.5 to the other four, width
\* and height being ResWidth and ResHeight; each of the eight channels gets
\* one key per frame of its own corner, at that frame.
C11_VertexValues ==
    (Written /\ kind = "uvs") =>
        \A c \in 1..Len(corner_keys) : \A dimension \in {"x", "y"} :
            LET corner == corners(corner_keys[c])
                n == Len(corner)
                h == VertexChannelHeader(corner_keys[c], dimension)
            IN  /\ contents[h] = "\t\tChannel uv_track_vertices/" \o corner_keys[c]
                                   \o "/position/" \o dimension \o "\n"
                /\ contents[h + 3] = "\t\t\tSize " \o ToString(n) \o "\n"
                /\ \A i \in 1..n :
                      LET k == h + 5 + 10 * (i - 1)
                      IN  /\ contents[k] = "\t\t\tKey " \o ToString(i - 1) \o "\n"
                          /\ contents[k + 1]
                                = "\t\t\t\tFrame " \o ToString(corner[i][1]) \o "\n"
                          /\ contents[k + 2]
                                = "\t\t\t\tValue "
                                  \o FloatStr(VertexValue(corner_keys[c], dimension,
                                                          Coordinate(corner[i], dimension)))
                                  \o "\n"
                /\ ~StartsWith(contents[h + 5 + 10 * n], "\t\t\tKey ")

C11_Witness ==
    /\ pc = "done" /\ kind = "uvs"
    /\ \A c \in 1..Len(corner_keys) : Len(corners(corner_keys[c])) >= 2
    /\ contents[VertexChannelHeader("upper_right", "x") + 3] = "\t\t\tSize 2\n"
    /\ contents[VertexChannelHeader("upper_right", "x") + 7]
          = "\t\t\t\tValue "
            \o FloatStr(upper_right[1][2] - 2 * Resolution[1] - 1) \o "\n"

\* The four add_tracker calls of import_bilinear_uvs, in call order
TrackerNames == << "offset0_0", "offset0_1", "offset1_0", "offset1_1" >>
TrackerCorner(t) ==
    CASE t = 1 -> lower_left [] t = 2 -> upper_left
      [] t = 3 -> lower_right [] t = 4 -> upper_right
Attachment(t) == add_tracker(TrackerNames[t], TrackerCorner(t), width, height)
\* Where attachment t sits in the setup once the attachments are spliced in
AttachmentStart(t) ==
    find_line_after("IsSoftImported", name_line, contents) + 2
        + (IF t > 1 THEN Len(Attachment(1)) ELSE 0)
        + (IF t > 2 THEN Len(Attachment(2)) ELSE 0)
        + (IF t > 3 THEN Len(Attachment(3)) ELSE 0)
\* A channel of an attachment: from its Channel line up to the next one
ChannelAt(lines, name) == CHOOSE i \in 1..Len(lines) : lines[i] = "Channel " \o name \o "\n"
ChannelStop(lines, name) ==
    Min({j \in (ChannelAt(lines, name) + 1)..Len(lines) : StartsWith(lines[j], "Channel")})
KeyLines(lines, name) ==
    {j \in ChannelAt(lines, name)..(ChannelStop(lines, name) - 1) :
        StartsWith(lines[j], "\tKey ")}
\* Key number i of the channel is at the given frame and holds the given value
HasKey(lines, name, i, frame, val) ==
    LET k == ChannelAt(lines, name) + 5 + 10 * i
    IN  /\ lines[k] = "\tKey " \o ToString(i) \o "\n"
        /\ lines[k + 1] = "\t\tFrame " \o ToString(frame) \o "\n"
        /\ lines[k + 2] = "\t\tValue " \o val \o "\n"
        /\ k \in KeyLines(lines, name)
ShiftChannel(lines, name, corner, coord) ==
    /\ lines[ChannelAt(lines, name) + 3] = "\tSize " \o ToString(Len(corner)) \o "\n"
    /\ Cardinality(KeyLines(lines, name)) = Len(corner)
    /\ \A i \in 1..Len(corner) :
          HasKey(lines, name, i - 1, corner[i][1],
                 FloatStr(corner[1][coord] - corner[i][coord]))
    /\ HasKey(lines, name, 0, corner[1][1], "0.0")
RefChannel(lines, name, corner, val) ==
    /\ Cardinality(KeyLines(lines, name)) = 1
    /\ HasKey(lines, name, 0, corner[1][1], val)

\* C12: for a corner of n >= 1 frames the shift/x and shift/y channels of its
\* tracker attachment declare Size n and hold n keys 0..n-1 at the corner's
\* frames in order, key i holding the first frame's coordinate minus frame
\* i's, so key 0 holds 0; ref/x, ref/y, ref/dx and ref/dy hold one key each,
\* at the first frame.
C12_TrackerChannels ==
    pc = "uvs_shape" =>
        \A t \in 1..4 :
            LET lines == Attachment(t)
                corner == TrackerCorner(t)
            IN  /\ Len(corner) >= 1
                /\ SubSeq(contents, AttachmentStart(t), AttachmentStart(t) + Len(lines) - 1)
                      = lines
                /\ ShiftChannel(lines, "shift/x", corner, 2)
                /\ ShiftChannel(lines, "shift/y", corner, 3)
                /\ RefChannel(lines, "ref/x", corner, FloatStr(corner[1][2]))
                /\ RefChannel(lines, "ref/y", corner, FloatStr(corner[1][3]))
                /\ RefChannel(lines, "ref/dx", corner, "0")
                /\ RefChannel(lines, "ref/dy", corner, "0")

\* The attachments of corners of two frames are in the setup, and the second
\* key of a shift channel is not 0
C12_Witness ==
    /\ pc = "uvs_shape"
    /\ \A t \in 1..4 : Len(TrackerCorner(t)) = 2
    /\ upper_right[1][2] # upper_right[2][2]
    /\ contents[AttachmentStart(4) + ChannelAt(Attachment(4), "shift/x") + 2]
          = "\tSize 2\n"

\* C13: when parse_mocha_files raises (wrong file count, a name without the
\* tracker suffix, differing track names) the host is untouched: from the
\* construction of the instance to the raise no node is created, the temp
\* folder and its files are as they were, nothing is written and no reload
\* is requested; the parse is the only step the import has taken.
C13_FailedValidationTouchesNothing ==
    [][pc' \in {"parse", "raised"} =>
          /\ UNCHANGED << hosts, temp_exists, temp_files, log >>
          /\ saved_text' = <<>> /\ contents' = <<>> /\ node_name' = ""
          /\ pc' = "raised" => (pc = "parse" /\ trace' = << "parse" >>)]_vars

\* A selection with a name that lacks the suffix has been refused, in a host
\* that holds a node and with no temp folder around
C13_Witness ==
    /\ pc = "raised" /\ raised = "TypeError"
    /\ trace = << "parse" >>
    /\ NodeNames(hosts[host_node]) # {}
    /\ ~temp_exists /\ log = <<>>

\* No two nodes of a host have the same name
DistinctNames(texts) ==
    \A h \in DOMAIN texts :
        Cardinality(NodeNames(texts[h])) = Cardinality(NodeNameLines(texts[h]))
\* The names name_import finds in the host: those of the nodes before the
\* import and the default names of the nodes just created
NamesAtImport ==
    NodeNames(create_node(hosts[host_node],
                          IF kind = "grid" THEN "Perspective Grid" ELSE "Surface"))
Numbered(k) == track_name \o ToString(k)

\* C14: name_import returns a name no node of the host has: the track name
\* when it is unused, otherwise the track name followed by the smallest
\* k >= 1 for which that name is unused; and whatever imports have run, the
\* nodes of a host have pairwise distinct names.
C14_UnusedName ==
    [][/\ pc = "create" =>
            /\ pc' = "save"
            /\ node_name' \notin NamesAtImport
            /\ track_name \notin NamesAtImport => node_name' = track_name
            /\ track_name \in NamesAtImport =>
                  \E k \in 1..(Cardinality(NamesAtImport) + 1) :
                      /\ node_name' = Numbered(k)
                      /\ \A j \in 1..(k - 1) : Numbered(j) \in NamesAtImport
            /\ NameLine(node_name') \in Range(hosts'[host_node])
       /\ DistinctNames(hosts')]_vars

\* Two imports of one track into a host that held a node called trk1 have
\* both been reloaded: the first as trk, the second as trk2
C14_Witness ==
    /\ pc = "done" /\ Len(log) = 2
    /\ log[1].node_name = track_name
    /\ node_name = Numbered(2)
    /\ {track_name, Numbered(1), Numbered(2)} \subseteq NodeNames(hosts[host_node])

====
